---------------------------- MODULE Spec2Model ----------------------------
(***************************************************************************)
(* Model of telegram-phone-parser-bot: the phone normalizer and extractor, *)
(* the SQLite contact store, the chat message handler, the /add command    *)
(* and the HTTP API of src/server.js (both server copies held in that      *)
(* file) and of the Database class of src/unnamed/part_000.                *)
(*                                                                         *)
(* Text is modelled as a sequence of one-character strings, so that the    *)
(* regular expressions and SQL LIKE patterns of the code can be computed   *)
(* character by character.  SQL NULL (JavaScript null/undefined) is the    *)
(* one-element sequence NULL, which is no text.                            *)
(***************************************************************************)
EXTENDS Integers, Sequences, FiniteSets, TLC

VARIABLES
    copy,       \* which server copy runs: 1 = server.js:1-597, 2 = server.js:598-1059
    contacts,   \* the rows of table contacts
    parsedMessages, \* the rows of table parsed_messages, in insertion order
    seq,        \* sqlite_sequence of contacts (largest id ever assigned)
    clock,      \* CURRENT_TIMESTAMP, in seconds
    hs,         \* the message handler invocations in flight, per handler
    resp,       \* what the last step sent or returned: a reply, an HTTP response, a call's result
    nIn,        \* normalizer harness: the input string
    nOut,       \* normalizer harness: normalizePhone(nIn)
    nOut2,      \* normalizer harness: normalizePhone(nOut)
    nPc,        \* normalizer harness: position
    pIn,        \* extractor harness: the text
    pOut,       \* extractor harness: parsePhoneNumbers(pIn)
    pPc         \* extractor harness: position

vars ==
    <<copy, contacts, parsedMessages, seq, clock, hs, resp,
      nIn, nOut, nOut2, nPc, pIn, pOut, pPc>>

storeVars == <<copy, contacts, parsedMessages, seq, clock, hs, resp>>
normVars == <<nIn, nOut, nOut2, nPc>>
parseVars == <<pIn, pOut, pPc>>

-----------------------------------------------------------------------------
(* Bounds of the model. *)

\* longest free prefix of a normalizer input
MaxInputLen == 3

\* the parsed_messages table stops taking inserts at this many rows
MaxLog == 2

\* the contacts table stops taking inserts once this many ids were assigned
MaxSeq == 2

\* the last second CURRENT_TIMESTAMP reaches
MaxClock == 1

-----------------------------------------------------------------------------
(* Constants of the program. *)

\* text.substring(0, 200): the length a message's context is cut to
ContextLen == 200

-----------------------------------------------------------------------------
(* Text. *)

NULL == <<"NULL">>

Digits == {"0", "1", "2", "3", "4", "5", "6", "7", "8", "9"}

\* \d of a JavaScript regular expression
IsDigit(c) == c \in Digits

\* \s of a JavaScript regular expression (the characters the model's texts use)
IsSpace(c) == c \in {" ", "\t", "\n"}

AllDigits(s) == \A i \in 1..Len(s) : IsDigit(s[i])

\* String.prototype.startsWith
StartsWith(s, p) == Len(s) >= Len(p) /\ SubSeq(s, 1, Len(p)) = p

\* String.prototype.substring(0, n)
Substring0(s, n) == SubSeq(s, 1, IF Len(s) < n THEN Len(s) ELSE n)

RECURSIVE TrimLeft(_)
TrimLeft(s) == IF s # <<>> /\ IsSpace(Head(s)) THEN TrimLeft(Tail(s)) ELSE s

RECURSIVE TrimRight(_)
TrimRight(s) ==
    IF s # <<>> /\ IsSpace(s[Len(s)]) THEN TrimRight(SubSeq(s, 1, Len(s) - 1)) ELSE s

\* String.prototype.trim
Trim(s) == TrimRight(TrimLeft(s))

-----------------------------------------------------------------------------
(* PhoneParser. *)

\* the characters /[^\d+]/g leaves in place: every digit and every '+'
KeptByStrip(c) == IsDigit(c) \/ c = "+"

\* phone.replace(/[^\d+]/g, '')
StripPhone(phone) == SelectSeq(phone, KeptByStrip)

\* a slip of normalizePhone: the leading 8 becomes 7, without the '+'
normalizePhoneNoPlus(phone) ==
    LET normalized == StripPhone(phone)
    IN  IF StartsWith(normalized, <<"8">>)
        THEN <<"7">> \o SubSeq(normalized, 2, Len(normalized))
        ELSE IF StartsWith(normalized, <<"7">>) /\ ~StartsWith(normalized, <<"+", "7">>)
        THEN <<"+">> \o normalized
        ELSE IF Len(normalized) = 10 /\ normalized[1] = "9" /\ AllDigits(normalized)
        THEN <<"+", "7">> \o normalized
        ELSE IF Len(normalized) = 10 /\ AllDigits(normalized)
        THEN <<"+", "7">> \o normalized
        ELSE normalized

\* PhoneParser.normalizePhone
normalizePhone(phone) ==
    LET normalized == StripPhone(phone)
    IN  IF StartsWith(normalized, <<"8">>)
        THEN <<"+", "7">> \o SubSeq(normalized, 2, Len(normalized))
        ELSE IF StartsWith(normalized, <<"7">>) /\ ~StartsWith(normalized, <<"+", "7">>)
        THEN <<"+">> \o normalized
        ELSE IF Len(normalized) = 10 /\ normalized[1] = "9" /\ AllDigits(normalized)
        THEN <<"+", "7">> \o normalized
        ELSE IF Len(normalized) = 10 /\ AllDigits(normalized)
        THEN <<"+", "7">> \o normalized
        ELSE normalized

\* [\d\s\-\(\)] of phoneRegex
IsPhoneChar(c) == IsDigit(c) \/ IsSpace(c) \/ c \in {"-", "(", ")"}

\* the last index of the maximal run of [\d\s\-\(\)] that starts at index from
\* (from - 1 when the run is empty)
RECURSIVE RunEnd(_, _)
RunEnd(text, from) ==
    IF from <= Len(text) /\ IsPhoneChar(text[from]) THEN RunEnd(text, from + 1) ELSE from - 1

\* a slip of CoreEnd: {6,} for {7,}, so that 8 characters make a match
CoreEndShort(text, s) ==
    LET ends == {k \in (s + 7)..RunEnd(text, s + 1) : IsDigit(text[k])}
    IN  IF ends = {} THEN 0 ELSE CHOOSE k \in ends : \A j \in ends : j <= k

\* \d[\d\s\-\(\)]{7,}\d matched at index s (text[s] a digit): the greedy run
\* is given back until a digit closes the match; 0 when there is no match
CoreEnd(text, s) ==
    LET ends == {k \in (s + 8)..RunEnd(text, s + 1) : IsDigit(text[k])}
    IN  IF ends = {} THEN 0 ELSE CHOOSE k \in ends : \A j \in ends : j <= k

\* phoneRegex matched at index p: the index of the match's last character, or 0
MatchAt(text, p) ==
    IF text[p] = "+"
    THEN IF p + 1 <= Len(text) /\ IsDigit(text[p + 1]) THEN CoreEnd(text, p + 1) ELSE 0
    ELSE IF IsDigit(text[p]) THEN CoreEnd(text, p) ELSE 0

\* text.match(phoneRegex) from index p on: the non-overlapping matches, left to right
RECURSIVE MatchAll(_, _)
MatchAll(text, p) ==
    IF p > Len(text) THEN <<>>
    ELSE LET e == MatchAt(text, p)
         IN  IF e > 0 THEN <<SubSeq(text, p, e)>> \o MatchAll(text, e + 1)
             ELSE MatchAll(text, p + 1)

\* PhoneParser.parsePhoneNumbers
parsePhoneNumbers(text) ==
    LET matches == MatchAll(text, 1)
    IN  [i \in 1..Len(matches) |->
            [original |-> Trim(matches[i]), normalized |-> normalizePhone(matches[i])]]

-----------------------------------------------------------------------------
(* The contacts table and the data-access layer. *)

\* the limit getAllContacts and the first copy's GET /api/contacts default to
DefaultLimit == 50

\* the limit the second copy's GET /api/contacts defaults to
DefaultLimitSecond == 20

\* the columns of table contacts
Columns ==
    {"id", "phone", "normalized_phone", "name", "company", "context",
     "created_at", "updated_at"}

\* db.get's result when no row matches (JavaScript undefined)
NoRow == [id |-> 0]

\* a row as INSERT builds it: id from AUTOINCREMENT, both timestamps defaulted
NewRow(id, phone, normalizedPhone, name, company, context, now) ==
    [id |-> id, phone |-> phone, normalized_phone |-> normalizedPhone,
     name |-> name, company |-> company, context |-> context,
     created_at |-> now, updated_at |-> now]

\* the rows an insert or update of (phone, normalizedPhone) collides with:
\* UNIQUE on phone and UNIQUE on normalized_phone
Conflicts(rows, phone, normalizedPhone) ==
    {r \in rows : r.phone = phone \/ r.normalized_phone = normalizedPhone}

\* a slip of INSERT OR REPLACE: the new row is added and the rows it collides
\* with are kept
insertPlain(rows, s, now, phone, normalizedPhone, name, company, context) ==
    [rows |-> rows \cup {NewRow(s + 1, phone, normalizedPhone, name, company, context, now)},
     seq |-> s + 1, err |-> FALSE]

\* database.saveContact of the first server copy: INSERT OR REPLACE.  A NULL
\* in a NOT NULL column aborts the statement; a UNIQUE collision deletes the
\* colliding rows and inserts the new row under a fresh id
saveContactReplace(rows, s, now, phone, normalizedPhone, name, company, context) ==
    IF phone = NULL \/ normalizedPhone = NULL
    THEN [rows |-> rows, seq |-> s, err |-> TRUE]
    ELSE [rows |-> (rows \ Conflicts(rows, phone, normalizedPhone))
                      \cup {NewRow(s + 1, phone, normalizedPhone, name, company, context, now)},
          seq |-> s + 1, err |-> FALSE]

\* database.saveContact of the second server copy and Database.saveContact:
\* INSERT OR IGNORE.  A NULL in a NOT NULL column or a UNIQUE collision skips
\* the row without an error
saveContactIgnore(rows, s, now, phone, normalizedPhone, name, company, context) ==
    IF phone = NULL \/ normalizedPhone = NULL
       \/ Conflicts(rows, phone, normalizedPhone) # {}
    THEN [rows |-> rows, seq |-> s, err |-> FALSE]
    ELSE [rows |-> rows \cup {NewRow(s + 1, phone, normalizedPhone, name, company, context, now)},
          seq |-> s + 1, err |-> FALSE]

\* database.saveContact of the server copy c
saveContact(c, rows, s, now, phone, normalizedPhone, name, company, context) ==
    IF c = 1
    THEN saveContactReplace(rows, s, now, phone, normalizedPhone, name, company, context)
    ELSE saveContactIgnore(rows, s, now, phone, normalizedPhone, name, company, context)

\* a slip of findContactByPhone: WHERE phone = ?
findContactByRawPhone(rows, phone) ==
    IF \E r \in rows : r.phone = phone
    THEN CHOOSE r \in rows : r.phone = phone
    ELSE NoRow

\* database.findContactByPhone: SELECT * FROM contacts WHERE normalized_phone = ?
findContactByPhone(rows, phone) ==
    IF \E r \in rows : r.normalized_phone = phone
    THEN CHOOSE r \in rows : r.normalized_phone = phone
    ELSE NoRow

\* database.getContactById: SELECT * FROM contacts WHERE id = ?
getContactById(rows, id) ==
    IF \E r \in rows : r.id = id THEN CHOOSE r \in rows : r.id = id ELSE NoRow

\* a JavaScript value that is truthy: neither null/undefined nor ''
Truthy(v) == v # NULL /\ v # <<>>

\* the constraints of table contacts on a whole table: PRIMARY KEY, UNIQUE
\* and NOT NULL
TableOk(rows) ==
    /\ \A r \in rows : r.phone # NULL /\ r.normalized_phone # NULL
    /\ \A r1, r2 \in rows :
          (r1.id = r2.id \/ r1.phone = r2.phone
              \/ r1.normalized_phone = r2.normalized_phone) => r1 = r2

\* the row UPDATE contacts SET <the keys of updates>, updated_at =
\* CURRENT_TIMESTAMP makes of row r
UpdatedRow(r, updates, now) ==
    [k \in Columns |->
        IF k = "updated_at" THEN now
        ELSE IF k \in DOMAIN updates THEN updates[k]
        ELSE r[k]]

\* database.updateContact: every key of updates becomes a SET clause; the
\* statement fails on an unknown column or a violated constraint; changes
\* counts the rows the WHERE clause selects
updateContact(rows, id, updates, now) ==
    LET hit == {r \in rows : r.id = id}
        new == (rows \ hit) \cup {UpdatedRow(r, updates, now) : r \in hit}
    IN  IF ~(DOMAIN updates \subseteq Columns) \/ ~TableOk(new)
        THEN [rows |-> rows, changes |-> 0, err |-> TRUE]
        ELSE [rows |-> new, changes |-> Cardinality(hit), err |-> FALSE]

\* the lower-case letter of each ASCII upper-case letter
LowerOf ==
    [A |-> "a", B |-> "b", C |-> "c", D |-> "d", E |-> "e", F |-> "f", G |-> "g",
     H |-> "h", I |-> "i", J |-> "j", K |-> "k", L |-> "l", M |-> "m", N |-> "n",
     O |-> "o", P |-> "p", Q |-> "q", R |-> "r", S |-> "s", T |-> "t", U |-> "u",
     V |-> "v", W |-> "w", X |-> "x", Y |-> "y", Z |-> "z"]

\* the case folding of SQLite's LIKE: the 26 ASCII letters only
Fold(c) == IF c \in DOMAIN LowerOf THEN LowerOf[c] ELSE c

\* SQLite's  text LIKE pattern  with no ESCAPE: '%' stands for any run of
\* characters, '_' for any one character, any other character for itself
\* up to ASCII case
RECURSIVE LikeMatch(_, _)
LikeMatch(pattern, text) ==
    IF pattern = <<>> THEN text = <<>>
    ELSE IF Head(pattern) = "%"
    THEN \E k \in 0..Len(text) : LikeMatch(Tail(pattern), SubSeq(text, k + 1, Len(text)))
    ELSE /\ text # <<>>
         /\ Head(pattern) = "_" \/ Fold(Head(pattern)) = Fold(Head(text))
         /\ LikeMatch(Tail(pattern), Tail(text))

\* column LIKE ?: NULL LIKE anything is NULL, which WHERE takes as false
ColumnLike(value, pattern) == value # NULL /\ LikeMatch(pattern, value)

\* the rows searchContacts's WHERE clause selects, the parameter being %query%
SearchHits(rows, query) ==
    LET searchQuery == <<"%">> \o query \o <<"%">>
    IN  {r \in rows :
            \/ ColumnLike(r.normalized_phone, searchQuery)
            \/ ColumnLike(r.phone, searchQuery)
            \/ ColumnLike(r.name, searchQuery)
            \/ ColumnLike(r.company, searchQuery)
            \/ ColumnLike(r.context, searchQuery)}

\* ORDER BY updated_at DESC over the rows S: every listing of S in which
\* updated_at never increases (rows of one second come in any order)
OrderByUpdatedDesc(S) ==
    LET n == Cardinality(S)
    IN  {l \in [1..n -> S] :
            /\ \A i, j \in 1..n : i # j => l[i] # l[j]
            /\ \A i \in 1..(n - 1) : l[i].updated_at >= l[i + 1].updated_at}

\* database.searchContacts: the possible results
searchContacts(rows, query) == OrderByUpdatedDesc(SearchHits(rows, query))

\* Database.logParsedMessage: INSERT INTO parsed_messages (message_id, chat_id,
\* contact_id, original_text); the row's id is its place in the table
logParsedMessage(rows, messageId, chatId, contactId, originalText) ==
    Append(rows, [id |-> Len(rows) + 1, message_id |-> messageId, chat_id |-> chatId,
                  contact_id |-> contactId, original_text |-> originalText])

\* the first n elements of l
FirstRows(l, n) == SubSeq(l, 1, IF n < Len(l) THEN n ELSE Len(l))

\* database.getAllContacts: SELECT * FROM contacts ORDER BY updated_at DESC
\* LIMIT ?, the possible results; a negative LIMIT is no limit
getAllContacts(rows, limit) ==
    {IF limit < 0 THEN l ELSE FirstRows(l, limit) : l \in OrderByUpdatedDesc(rows)}

\* the digits in the order of their values
DigitSeq == <<"0", "1", "2", "3", "4", "5", "6", "7", "8", "9">>

\* the value of digit c
DigitValue(c) == (CHOOSE k \in 1..10 : DigitSeq[k] = c) - 1

\* parseInt of a string that starts with a digit: the value of its leading
\* digits, acc being the value of the digits read so far
RECURSIVE ParseDigits(_, _)
ParseDigits(s, acc) ==
    IF s # <<>> /\ IsDigit(Head(s)) THEN ParseDigits(Tail(s), 10 * acc + DigitValue(Head(s)))
    ELSE acc

-----------------------------------------------------------------------------
(* The inputs the model draws from. *)

\* "89991234567"
Phone8 == <<"8", "9", "9", "9", "1", "2", "3", "4", "5", "6", "7">>
\* "+79991234567", which is also the normalized form of Phone8
PhonePlus7 == <<"+", "7", "9", "9", "9", "1", "2", "3", "4", "5", "6", "7">>
\* "9161112233", normalized to "+79161112233"
PhoneTen == <<"9", "1", "6", "1", "1", "1", "2", "2", "3", "3">>
NormTen == <<"+", "7">> \o PhoneTen

\* "8-999-123-45-67": one phone, normalized to PhonePlus7
TextDashed == <<"8", "-", "9", "9", "9", "-", "1", "2", "3", "-", "4", "5", "-", "6", "7">>
\* "Al +79991234567": one phone, PhonePlus7 as typed
TextPlus == <<"A", "l", " ">> \o PhonePlus7
\* "9161112233,89991234567": two phones
TextTwo == PhoneTen \o <<",">> \o Phone8
\* "hi_": no phone
TextNone == <<"h", "i", "_">>
\* " ": blank
TextBlank == <<" ">>

\* the texts each handler invocation may be given: the two handlers stand
\* for two chats, whose phones for one number differ as typed
Texts == [h1 |-> {TextDashed, TextTwo, TextNone, TextBlank}, h2 |-> {TextPlus}]

NameAl == <<"A", "l">>
CompanyCo == <<"C", "o">>

\* the arguments of /add after the command word
AddArgs == {<<>>, <<Phone8>>, <<PhonePlus7, NameAl, CompanyCo>>}

\* a key a JavaScript object does not hold reads as undefined
Undefined == <<"undefined">>

\* JSON bodies of PUT /api/contacts/:id, by the value each key reads as
PutBodies ==
    {[name |-> Undefined, company |-> Undefined, context |-> Undefined, phone |-> Undefined],
     [name |-> NameAl, company |-> Undefined, context |-> Undefined, phone |-> PhoneTen]}

\* argument objects of direct updateContact calls, by the value each key reads as
UpdateArgs ==
    {[name |-> Undefined, context |-> Undefined, phone |-> Undefined],
     [name |-> NameAl, context |-> Undefined, phone |-> Undefined],
     [name |-> Undefined, context |-> TextNone, phone |-> Undefined],
     [name |-> Undefined, context |-> Undefined, phone |-> Phone8]}

\* Object.entries of an object: its own keys with their values
Entries(obj) == [k \in {k \in DOMAIN obj : obj[k] # Undefined} |-> obj[k]]

\* search queries: a digit run, a name in another case, the LIKE wildcards
Queries == {<<"9", "9", "9">>, <<"a", "L">>, <<"_">>, <<"%">>}

\* the limit arguments of direct getAllContacts calls: none (undefined), one
\* row, no row, a negative number
ListLimits == {DefaultLimit, 1, 0, -1}

\* the limit parameter of GET /api/contacts: absent, "1"
LimitParams == {Undefined, <<"1">>}

\* the search parameter of GET /api/contacts: absent, a digit run
SearchParams == {Undefined, <<"9", "9", "9">>}

\* the arguments of direct saveContact calls: phones as typed, normalized
\* phones (paired freely with them), names
SavePhones == {Phone8, PhonePlus7, NULL}
SaveNorms == {PhonePlus7, NormTen, NULL}
SaveNames == {NULL, NameAl}

\* the normalized phones of the saveContact calls made beside the server's handlers
ServerSaveNorms == {PhonePlus7, NULL}

Handlers == {"h1", "h2"}

\* resp after a step that sends and returns nothing
Nothing == [op |-> "none"]

IdleHandler == [pc |-> "idle", text |-> <<>>, phones |-> <<>>, i |-> 0, responses |-> <<>>]

-----------------------------------------------------------------------------
(* The state after start-up: both tables created and empty. *)

InitStore ==
    /\ copy \in {1, 2}
    /\ contacts = {}
    /\ parsedMessages = <<>>
    /\ seq = 0
    /\ clock = 0
    /\ hs = [h \in Handlers |-> IdleHandler]
    /\ resp = Nothing

InitNormIdle ==
    /\ nIn = <<>>
    /\ nOut = NULL
    /\ nOut2 = NULL
    /\ nPc = "off"

InitParseIdle ==
    /\ pIn = <<>>
    /\ pOut = <<>>
    /\ pPc = "off"

Init == InitStore /\ InitNormIdle /\ InitParseIdle

-----------------------------------------------------------------------------
(* Time. *)

\* a second passes
Tick ==
    /\ clock < MaxClock
    /\ clock' = clock + 1
    /\ resp' = Nothing
    /\ UNCHANGED <<copy, contacts, seq, hs>>
    /\ UNCHANGED parsedMessages
    /\ UNCHANGED <<normVars, parseVars>>

-----------------------------------------------------------------------------
(* Direct calls of the data-access layer. *)

\* saveContact(phone, normalizedPhone, name, company, context)
SaveCall(phone, normalizedPhone, name, company, context) ==
    /\ seq < MaxSeq
    /\ LET res == saveContact(copy, contacts, seq, clock,
                              phone, normalizedPhone, name, company, context)
       IN  /\ contacts' = res.rows
           /\ seq' = res.seq
           /\ resp' = [op |-> "save", err |-> res.err]
    /\ UNCHANGED <<copy, clock, hs>>
    /\ UNCHANGED parsedMessages
    /\ UNCHANGED <<normVars, parseVars>>

\* findContactByPhone(phone)
FindCall(phone) ==
    /\ resp' = [op |-> "find", row |-> findContactByPhone(contacts, phone)]
    /\ UNCHANGED <<copy, contacts, seq, clock, hs>>
    /\ UNCHANGED parsedMessages
    /\ UNCHANGED <<normVars, parseVars>>

\* updateContact(id, updates)
UpdateCall(id, updates) ==
    /\ LET res == updateContact(contacts, id, Entries(updates), clock)
       IN  /\ contacts' = res.rows
           /\ resp' = [op |-> "update", changes |-> res.changes, err |-> res.err]
    /\ UNCHANGED <<copy, seq, clock, hs>>
    /\ UNCHANGED parsedMessages
    /\ UNCHANGED <<normVars, parseVars>>

\* searchContacts(query)
SearchCall(query) ==
    /\ \E rows \in searchContacts(contacts, query) :
          resp' = [op |-> "search", query |-> query, data |-> rows]
    /\ UNCHANGED <<copy, contacts, seq, clock, hs>>
    /\ UNCHANGED parsedMessages
    /\ UNCHANGED <<normVars, parseVars>>

\* getAllContacts(limit)
ListCall(limit) ==
    /\ \E rows \in getAllContacts(contacts, limit) :
          resp' = [op |-> "all", limit |-> limit, data |-> rows]
    /\ UNCHANGED <<copy, contacts, seq, clock, hs>>
    /\ UNCHANGED parsedMessages
    /\ UNCHANGED <<normVars, parseVars>>

\* logParsedMessage(messageId, chatId, contactId, originalText), which the
\* Database class offers and no handler of server.js calls
LogCall(messageId, chatId, contactId, originalText) ==
    /\ Len(parsedMessages) < MaxLog
    /\ parsedMessages' = logParsedMessage(parsedMessages, messageId, chatId, contactId, originalText)
    /\ resp' = [op |-> "log", id |-> Len(parsedMessages')]
    /\ UNCHANGED <<copy, contacts, seq, clock, hs>>
    /\ UNCHANGED <<normVars, parseVars>>

-----------------------------------------------------------------------------
(* bot.on('message'): one step per stretch of code between two awaits. *)

\* a slip of ResponseBlock: the phone as typed is shown
ResponseBlockOriginal(phone, contact) ==
    [phone |-> phone.original,
     name |-> IF contact # NoRow /\ Truthy(contact.name) THEN contact.name ELSE NULL,
     company |-> IF contact # NoRow /\ Truthy(contact.company) THEN contact.company ELSE NULL]

\* the reply block of one phone: the normalized number, then the contact's
\* name and company when the contact is there and the field is truthy
ResponseBlock(phone, contact) ==
    [phone |-> phone.normalized,
     name |-> IF contact # NoRow /\ Truthy(contact.name) THEN contact.name ELSE NULL,
     company |-> IF contact # NoRow /\ Truthy(contact.company) THEN contact.company ELSE NULL]

\* responses.push(response) and the loop's next turn: the next phone, or the reply
Pushed(h, block) ==
    LET st == hs[h]
    IN  [st EXCEPT !.responses = Append(st.responses, block),
                   !.i = IF st.i < Len(st.phones) THEN st.i + 1 ELSE st.i,
                   !.pc = IF st.i < Len(st.phones) THEN "find" ELSE "reply"]

\* the handler returns, having sent `reply`
Returned(h, reply, blocks) ==
    /\ hs' = [hs EXCEPT ![h] = IdleHandler]
    /\ resp' = [op |-> "message", reply |-> reply, blocks |-> blocks]

\* a message arrives: blank text and text without a phone end the handler at
\* once; otherwise the loop starts with the first phone
MsgArrive(h, text) ==
    /\ hs[h].pc = "idle"
    /\ LET phones == parsePhoneNumbers(text)
       IN  IF Trim(text) = <<>> \/ Len(phones) = 0
           THEN /\ hs' = hs
                /\ resp' = [op |-> "message", reply |-> "none", blocks |-> <<>>]
           ELSE /\ hs' = [hs EXCEPT ![h] = [pc |-> "find", text |-> text, phones |-> phones,
                                            i |-> 1, responses |-> <<>>]]
                /\ resp' = Nothing
    /\ UNCHANGED <<copy, contacts, seq, clock>>
    /\ UNCHANGED parsedMessages
    /\ UNCHANGED <<normVars, parseVars>>

\* contact = await findContactByPhone(phone.normalized): a contact found goes
\* into the reply, a missing one is to be saved
MsgFind(h) ==
    /\ hs[h].pc = "find"
    /\ LET phone == hs[h].phones[hs[h].i]
           contact == findContactByPhone(contacts, phone.normalized)
       IN  hs' = [hs EXCEPT ![h] =
                     IF contact # NoRow THEN Pushed(h, ResponseBlock(phone, contact))
                     ELSE [@ EXCEPT !.pc = "save"]]
    /\ resp' = Nothing
    /\ UNCHANGED <<copy, contacts, seq, clock>>
    /\ UNCHANGED parsedMessages
    /\ UNCHANGED <<normVars, parseVars>>

\* await saveContact(phone.original, phone.normalized, null, null,
\* text.substring(0, 200)); a rejected save ends in the catch clause
MsgSave(h) ==
    /\ hs[h].pc = "save"
    /\ seq < MaxSeq
    /\ LET phone == hs[h].phones[hs[h].i]
           res == saveContact(copy, contacts, seq, clock, phone.original, phone.normalized,
                              NULL, NULL, Substring0(hs[h].text, ContextLen))
       IN  /\ contacts' = res.rows
           /\ seq' = res.seq
           /\ IF res.err
              THEN Returned(h, IF copy = 1 THEN "apology" ELSE "none", <<>>)
              ELSE /\ hs' = [hs EXCEPT ![h].pc = "refetch"]
                   /\ resp' = Nothing
    /\ UNCHANGED <<copy, clock>>
    /\ UNCHANGED parsedMessages
    /\ UNCHANGED <<normVars, parseVars>>

\* contact = await findContactByPhone(phone.normalized) after the save, and
\* the reply block: the first copy reads contact.name under `contact &&`, the
\* second reads it bare, which throws on a missing contact
MsgRefetch(h) ==
    /\ hs[h].pc = "refetch"
    /\ LET phone == hs[h].phones[hs[h].i]
           contact == findContactByPhone(contacts, phone.normalized)
       IN  IF contact = NoRow /\ copy = 2
           THEN Returned(h, "none", <<>>)
           ELSE /\ hs' = [hs EXCEPT ![h] = Pushed(h, ResponseBlock(phone, contact))]
                /\ resp' = Nothing
    /\ UNCHANGED <<copy, contacts, seq, clock>>
    /\ UNCHANGED parsedMessages
    /\ UNCHANGED <<normVars, parseVars>>

\* an awaited store call rejects (the database is locked, the disk fails):
\* the catch clause of the first copy sends the apology, that of the second
\* only logs
MsgFail(h) ==
    /\ hs[h].pc \in {"find", "save", "refetch"}
    /\ Returned(h, IF copy = 1 THEN "apology" ELSE "none", <<>>)
    /\ UNCHANGED <<copy, contacts, seq, clock>>
    /\ UNCHANGED parsedMessages
    /\ UNCHANGED <<normVars, parseVars>>

\* await ctx.reply(responses.join('\n\n'), ...)
MsgReply(h) ==
    /\ hs[h].pc = "reply"
    /\ Returned(h, "phones", hs[h].responses)
    /\ UNCHANGED <<copy, contacts, seq, clock>>
    /\ UNCHANGED parsedMessages
    /\ UNCHANGED <<normVars, parseVars>>

-----------------------------------------------------------------------------
(* bot.command('add'). *)

\* args[i] || null
ArgOrNull(args, i) == IF i <= Len(args) /\ Truthy(args[i]) THEN args[i] ELSE NULL

CmdAdd(args) ==
    /\ IF Len(args) < 1
       THEN /\ resp' = [op |-> "add", reply |-> "usage"]
            /\ UNCHANGED <<contacts, seq>>
       ELSE /\ seq < MaxSeq
            /\ LET phone == normalizePhone(args[1])
                   name == ArgOrNull(args, 2)
                   company == ArgOrNull(args, 3)
                   res == saveContact(copy, contacts, seq, clock,
                                      args[1], phone, name, company, NULL)
               IN  /\ contacts' = res.rows
                   /\ seq' = res.seq
                   /\ resp' = [op |-> "add", reply |-> IF res.err THEN "error" ELSE "saved",
                               phone |-> phone, name |-> name, company |-> company]
    /\ UNCHANGED <<copy, clock, hs>>
    /\ UNCHANGED parsedMessages
    /\ UNCHANGED <<normVars, parseVars>>

-----------------------------------------------------------------------------
(* The HTTP API. *)

\* the updates object PUT builds: name, company and context, each when the
\* body holds it
PutUpdates(body) ==
    [k \in {k \in {"name", "company", "context"} : body[k] # Undefined} |-> body[k]]

\* the status PUT answers with: the first copy answers 404 when no row
\* changed, the second answers success whatever the count
PutStatus(c, res) ==
    IF res.err THEN 500
    ELSE IF c = 1 THEN (IF res.changes > 0 THEN 200 ELSE 404)
    ELSE 200

\* app.put('/api/contacts/:id')
PutContact(id, body) ==
    /\ LET res == updateContact(contacts, id, PutUpdates(body), clock)
       IN  /\ contacts' = res.rows
           /\ resp' = [op |-> "put", id |-> id, status |-> PutStatus(copy, res),
                       success |-> (PutStatus(copy, res) = 200)]
    /\ UNCHANGED <<copy, seq, clock, hs>>
    /\ UNCHANGED parsedMessages
    /\ UNCHANGED <<normVars, parseVars>>

\* the limit GET /api/contacts hands to getAllContacts: the first copy takes
\* parseInt of the parameter and 50 without one, the second hands the
\* parameter, which SQLite converts, and 20 without one
ListLimit(c, limit) ==
    IF limit = Undefined THEN (IF c = 1 THEN DefaultLimit ELSE DefaultLimitSecond)
    ELSE ParseDigits(limit, 0)

\* the body GET /api/contacts answers with: the first copy adds count
ListResponse(c, search, limit, rows) ==
    IF c = 1
    THEN [op |-> "list", search |-> search, limit |-> limit, status |-> 200,
          success |-> TRUE, data |-> rows, count |-> Len(rows)]
    ELSE [op |-> "list", search |-> search, limit |-> limit, status |-> 200,
          success |-> TRUE, data |-> rows]

\* app.get('/api/contacts'): a search when the search parameter is there (and,
\* in the first copy, is not blank; the first copy trims it), else the listing
ListContacts(search, limit) ==
    /\ IF search # Undefined /\ Truthy(search) /\ (copy = 1 => Trim(search) # <<>>)
       THEN \E rows \in searchContacts(contacts, IF copy = 1 THEN Trim(search) ELSE search) :
               resp' = ListResponse(copy, search, limit, rows)
       ELSE \E rows \in getAllContacts(contacts, ListLimit(copy, limit)) :
               resp' = ListResponse(copy, search, limit, rows)
    /\ UNCHANGED <<copy, contacts, seq, clock, hs>>
    /\ UNCHANGED parsedMessages
    /\ UNCHANGED <<normVars, parseVars>>

\* a slip of the GET handler: a missing contact is answered like a found one
GetResponseNo404(id, contact) ==
    [op |-> "get", id |-> id, status |-> 200, success |-> TRUE, data |-> contact]

\* the response of app.get('/api/contacts/:id') for what getContactById gave
GetResponse(id, contact) ==
    IF contact # NoRow
    THEN [op |-> "get", id |-> id, status |-> 200, success |-> TRUE, data |-> contact]
    ELSE [op |-> "get", id |-> id, status |-> 404, success |-> FALSE, data |-> NoRow]

\* app.get('/api/contacts/:id')
GetContact(id) ==
    /\ resp' = GetResponse(id, getContactById(contacts, id))
    /\ UNCHANGED <<copy, contacts, seq, clock, hs>>
    /\ UNCHANGED parsedMessages
    /\ UNCHANGED <<normVars, parseVars>>

-----------------------------------------------------------------------------
(* The normalizer applied to strings, once and again. *)

\* the characters of the free prefix: the digits the rules look at, another
\* digit, '+' and a separator
NormAlphabet == {"8", "7", "9", "1", "+", "-"}

\* "9991234567"
TenDigits == <<"9", "9", "9", "1", "2", "3", "4", "5", "6", "7">>

\* the fixed tails: none, and the last 8 to 10 digits of TenDigits, so that
\* prefix and tail together hold 9, 10 and 11 digits
NormTails == {<<>>} \cup {SubSeq(TenDigits, k, 10) : k \in 1..3}

NormPrefixes == UNION {[1..n -> NormAlphabet] : n \in 0..MaxInputLen}

NormInputs == {p \o t : p \in NormPrefixes, t \in NormTails}

InitNorm ==
    /\ InitStore
    /\ copy = 1
    /\ nIn \in NormInputs
    /\ nOut = NULL
    /\ nOut2 = NULL
    /\ nPc = "start"
    /\ InitParseIdle

\* normalizePhone(nIn)
NormalizeInput ==
    /\ nPc = "start"
    /\ nOut' = normalizePhone(nIn)
    /\ nPc' = "once"
    /\ UNCHANGED <<nIn, nOut2>>
    /\ UNCHANGED storeVars
    /\ UNCHANGED parseVars

\* normalizePhone of the result
NormalizeOutput ==
    /\ nPc = "once"
    /\ nOut2' = normalizePhone(nOut)
    /\ nPc' = "twice"
    /\ UNCHANGED <<nIn, nOut>>
    /\ UNCHANGED storeVars
    /\ UNCHANGED parseVars

NextNorm == NormalizeInput \/ NormalizeOutput

SpecNorm == InitNorm /\ [][NextNorm]_vars

-----------------------------------------------------------------------------
(* The extractor applied to texts. *)

\* "call me at 8-999-123-45-67 please"
TextCallMe ==
    <<"c", "a", "l", "l", " ", "m", "e", " ", "a", "t", " ">> \o TextDashed
        \o <<" ", "p", "l", "e", "a", "s", "e">>

\* what stands before a number in a text: nothing, words, a '+', two, an
\* opening parenthesis, one more digit, a digit and a space
ParseLeads == {<<>>, <<"a", "t", " ">>, <<"+">>, <<"+", "+">>, <<"(">>, <<"5">>, <<"5", " ">>}

\* the digit runs: a dashed and a plain 11-digit number, 8 digits (one short
\* of a match), 8 digits around a space, a number broken by a letter
ParseCores ==
    {TextDashed, Phone8,
     <<"1", "2", "3", "4", "5", "6", "7", "8">>,
     <<"1", "2", "3", "4", " ", "5", "6", "7", "8">>,
     <<"8", "(", "9", "9", "9", ")", "x", "1", "2", "3", "4", "5">>}

\* what follows: nothing, a word, a second number after a comma or after a
\* space, a hyphen, a parenthesis and a digit
ParseTrails ==
    {<<>>, <<" ", "o", "k">>, <<",">> \o PhoneTen, <<" ">> \o PhoneTen, <<"-">>, <<")", "7">>}

ParseTexts ==
    {lead \o core \o trail : lead \in ParseLeads, core \in ParseCores, trail \in ParseTrails}
        \cup {TextCallMe, TextNone, TextBlank, <<>>}

InitParse ==
    /\ InitStore
    /\ copy = 1
    /\ InitNormIdle
    /\ pIn \in ParseTexts
    /\ pOut = <<>>
    /\ pPc = "text"

\* parsePhoneNumbers(pIn)
ParseInput ==
    /\ pPc = "text"
    /\ pOut' = parsePhoneNumbers(pIn)
    /\ pPc' = "parsed"
    /\ UNCHANGED pIn
    /\ UNCHANGED storeVars
    /\ UNCHANGED normVars

NextParse == ParseInput

SpecParse == InitParse /\ [][NextParse]_vars

-----------------------------------------------------------------------------
(* The specifications. *)

\* ids a request may name: every id the table can hold, and one it cannot
RequestIds == 1..(MaxSeq + 1)

\* the data-access layer called directly
NextStore ==
    \/ \E phone \in SavePhones, normalizedPhone \in SaveNorms, name \in SaveNames :
          SaveCall(phone, normalizedPhone, name, NULL, NULL)
    \/ \E phone \in {PhonePlus7, NormTen} : FindCall(phone)
    \/ \E id \in RequestIds, updates \in UpdateArgs : UpdateCall(id, updates)
    \/ \E query \in Queries : SearchCall(query)

\* the server: chat messages, /add and the HTTP API
NextServer ==
    \/ \E h \in Handlers : \E text \in Texts[h] : MsgArrive(h, text)
    \/ \E h \in Handlers : MsgFind(h)
    \/ \E h \in Handlers : MsgSave(h)
    \/ \E h \in Handlers : MsgRefetch(h)
    \/ \E h \in Handlers : MsgFail(h)
    \/ \E h \in Handlers : MsgReply(h)
    \/ \E args \in AddArgs : CmdAdd(args)
    \/ \E id \in RequestIds, body \in PutBodies : PutContact(id, body)
    \/ \E id \in RequestIds : GetContact(id)

\* the server within one second of CURRENT_TIMESTAMP, and saveContact called
\* beside its handlers
Next ==
    \/ NextServer
    \/ \E normalizedPhone \in ServerSaveNorms :
          SaveCall(PhonePlus7, normalizedPhone, NULL, NULL, NULL)

Spec == Init /\ [][Next]_vars

\* the data-access layer under direct calls, as the seconds pass
SpecStore == Init /\ [][Tick \/ NextStore]_vars

\* the listings: getAllContacts called directly and GET /api/contacts, over
\* a table that direct saves and updates fill as the seconds pass
NextList ==
    \/ \E phone \in {Phone8, PhonePlus7}, normalizedPhone \in {PhonePlus7, NormTen} :
          SaveCall(phone, normalizedPhone, NULL, NULL, NULL)
    \/ \E id \in RequestIds, updates \in UpdateArgs : UpdateCall(id, updates)
    \/ \E limit \in ListLimits : ListCall(limit)
    \/ \E search \in SearchParams, limit \in LimitParams : ListContacts(search, limit)

SpecList == Init /\ [][Tick \/ NextList]_vars

\* the message log of the Database class under direct calls: message ids,
\* the chats, a contact id or none (0), the message text
NextLog ==
    \/ \E messageId \in 1..MaxLog, chatId \in Handlers, contactId \in 0..1 :
          \E text \in Texts[chatId] : LogCall(messageId, chatId, contactId, text)
    \/ \E name \in SaveNames : SaveCall(Phone8, PhonePlus7, name, NULL, NULL)

SpecLog == Init /\ [][NextLog]_vars

-----------------------------------------------------------------------------
(* The claims. *)

\* C1: first write wins.  A saveContact call whose normalizedPhone is already
\* stored changes nothing: the table still holds exactly the row of the first
\* save (its id, phone text, name, company and context), so that
\* findContactByPhone returns the first save's row.
C1_FirstWriteWins ==
    [][\A phone \in SavePhones, normalizedPhone \in SaveNorms, name \in SaveNames :
          (/\ SaveCall(phone, normalizedPhone, name, NULL, NULL)
           /\ findContactByPhone(contacts, normalizedPhone) # NoRow)
          => /\ contacts' = contacts
             /\ findContactByPhone(contacts', normalizedPhone)
                   = findContactByPhone(contacts, normalizedPhone)]_vars

\* C2: when two handlers both found a normalized phone absent, the insert
\* that runs second is a no-op: the table keeps the row the first insert
\* wrote (same id, phone text and context) and nothing else changes.
C2_RaceLoserIsNoOp ==
    [][\A h \in Handlers :
          (/\ hs[h].pc = "save"
           /\ findContactByPhone(contacts, hs[h].phones[hs[h].i].normalized) # NoRow
           /\ MsgSave(h))
          => contacts' = contacts]_vars

\* C3: no two contact rows have the same normalizedPhone and no row has a
\* null normalizedPhone.
C3_NormalizedUniqueNonNull ==
    /\ \A r \in contacts : r.normalized_phone # NULL
    /\ \A r1, r2 \in contacts : r1.normalized_phone = r2.normalized_phone => r1 = r2

\* C3 witness: one row is stored and /add has just saved a phone whose
\* normalized form a chat message had stored before under another phone text
C3_Witness ==
    /\ Cardinality(contacts) = 1
    /\ resp.op = "add" /\ resp.reply = "saved" /\ resp.phone = PhonePlus7
    /\ \E r \in contacts : r.normalized_phone = PhonePlus7 /\ r.phone = TextDashed

\* C4: contacts are never deleted and their id never changes: a row with id i
\* and normalizedPhone n is followed by a row with id i and normalizedPhone n.
C4_RowsKeepIdAndKey ==
    [][\A r \in contacts :
          \E r2 \in contacts' : r2.id = r.id /\ r2.normalized_phone = r.normalized_phone]_vars

\* C5: updateContact on a stored contact changes only the supplied fields
\* among name, company and context, and updated_at; the row's other columns
\* (id, phone, normalized_phone, created_at, unsupplied fields) and every
\* other row stay as they were.
C5_UpdateChangesOnlySupplied ==
    [][\A id \in RequestIds, updates \in UpdateArgs :
          UpdateCall(id, updates)
          => /\ Cardinality(contacts') = Cardinality(contacts)
             /\ \A r \in contacts :
                   IF r.id # id THEN r \in contacts'
                   ELSE \E r2 \in contacts' :
                           /\ r2.id = r.id
                           /\ \A k \in Columns \ {"updated_at"} :
                                 r2[k] # r[k]
                                 => /\ k \in {"name", "company", "context"}
                                    /\ k \in DOMAIN updates
                                    /\ updates[k] # Undefined]_vars

\* C6: PUT /api/contacts/:id answers 404 with success false when no contact
\* has the id, and success when one has, whatever the body supplies.
C6_PutAnswersNotFound ==
    resp.op = "put"
    => IF \E r \in contacts : r.id = resp.id
       THEN resp.status = 200 /\ resp.success
       ELSE resp.status = 404 /\ ~resp.success

\* C7: GET /api/contacts/:id answers 404 with success false when no contact
\* has the id and success with exactly the stored row when one has, and it
\* leaves the table as it was.
C7_GetByIdAnswers ==
    /\ [](resp.op = "get"
          => IF \E r \in contacts : r.id = resp.id
             THEN /\ resp.status = 200 /\ resp.success
                  /\ resp.data \in contacts /\ resp.data.id = resp.id
             ELSE resp.status = 404 /\ ~resp.success /\ resp.data = NoRow)
    /\ [][(\E id \in RequestIds : GetContact(id)) => contacts' = contacts /\ seq' = seq]_vars

\* C7 witness: with contacts stored, a GET for an id no contact has was
\* answered 404
C7_Witness ==
    /\ resp.op = "get" /\ resp.status = 404
    /\ contacts # {}
    /\ \A r \in contacts : r.id # resp.id

\* text holds query as a substring, up to ASCII case
ContainsFolded(text, query) ==
    \E k \in 0..(Len(text) - Len(query)) :
        \A i \in 1..Len(query) : Fold(text[k + i]) = Fold(query[i])

\* C8: searchContacts(q) returns exactly the contacts in which q occurs as a
\* case-insensitive literal substring of phone, normalized_phone, name,
\* company or context, ordered by updated_at descending.
C8_SearchIsLiteralSubstring ==
    resp.op = "search"
    => /\ {resp.data[i] : i \in DOMAIN resp.data}
             = {r \in contacts :
                   \E k \in {"phone", "normalized_phone", "name", "company", "context"} :
                       r[k] # NULL /\ ContainsFolded(r[k], resp.query)}
       /\ \A i \in 1..(Len(resp.data) - 1) :
             resp.data[i].updated_at >= resp.data[i + 1].updated_at

\* C9: normalizePhone is idempotent.
C9_NormalizeIdempotent == nPc = "twice" => nOut2 = nOut

\* C9 witness: an input that starts with 8 and holds separators was
\* normalized, changed by it, and normalized again
C9_Witness ==
    /\ nPc = "twice"
    /\ StartsWith(nIn, <<"8", "-">>)
    /\ Len(nIn) > 10
    /\ nOut # nIn

\* the strip step as the specification words it: digits are kept, and a '+'
\* only when it is the first kept character
StripLeadingPlusOnly(raw) ==
    LET kept == SelectSeq(raw, KeptByStrip)
    IN  IF kept = <<>> THEN <<>> ELSE <<kept[1]>> \o SelectSeq(Tail(kept), IsDigit)

\* the six-step algorithm of the specification
SixStepNormalize(raw) ==
    LET stripped == StripLeadingPlusOnly(raw)
    IN  IF StartsWith(stripped, <<"8">>) THEN <<"+", "7">> \o Tail(stripped)
        ELSE IF StartsWith(stripped, <<"7">>) THEN <<"+">> \o stripped
        ELSE IF Len(stripped) = 10 /\ AllDigits(stripped) THEN <<"+", "7">> \o stripped
        ELSE stripped

\* C10: normalizePhone returns what the six-step algorithm returns: every
\* character but digits and a leading '+' stripped, then the first rule that
\* matches applied.
C10_NormalizeIsSixStep == nPc # "start" => nOut = SixStepNormalize(nIn)

\* the prefixes under which a ten-digit number is written
RawForms == {<<>>, <<"8">>, <<"7">>, <<"+", "7">>}

\* C11: raw forms of one number collapse to one key: for every string N of
\* exactly ten digits, whatever its first digit, normalizePhone of N, of
\* "8" N, of "7" N and of "+7" N is "+7" N.
C11_RawFormsCollapse ==
    nPc # "start"
    => \A form \in RawForms :
          LET N == SubSeq(nIn, Len(form) + 1, Len(nIn))
          IN  (StartsWith(nIn, form) /\ Len(N) = 10 /\ AllDigits(N))
              => nOut = <<"+", "7">> \o N

\* text[a..b] is a run as the specification describes a match: an optional
\* '+', then at least 9 characters out of digits, whitespace, hyphens and
\* parentheses, the first and the last of them digits
IsPhoneRun(text, a, b) ==
    LET s == IF text[a] = "+" THEN a + 1 ELSE a
    IN  /\ b - s + 1 >= 9
        /\ IsDigit(text[s]) /\ IsDigit(text[b])
        /\ \A i \in s..b : IsPhoneChar(text[i])

\* some run lies within text[lo..hi]
HasPhoneRun(text, lo, hi) ==
    \E a \in lo..hi : \E b \in a..hi : IsPhoneRun(text, a, b)

\* the first index from `from` on at which piece occurs in text, or 0
FirstAt(text, piece, from) ==
    LET at == {k \in from..(Len(text) - Len(piece) + 1) :
                  SubSeq(text, k, k + Len(piece) - 1) = piece}
    IN  IF at = {} THEN 0 ELSE CHOOSE k \in at : \A j \in at : k <= j

\* the entries from the i-th on are runs of text that follow one another
\* from index `from` on without overlap, and no run lies between or after them
RECURSIVE EntriesPlaced(_, _, _, _)
EntriesPlaced(text, entries, i, from) ==
    IF i > Len(entries) THEN ~HasPhoneRun(text, from, Len(text))
    ELSE LET k == FirstAt(text, entries[i].original, from)
             e == k + Len(entries[i].original) - 1
         IN  /\ k > 0
             /\ IsPhoneRun(text, k, e)
             /\ ~HasPhoneRun(text, from, k - 1)
             /\ EntriesPlaced(text, entries, i + 1, e + 1)

\* C12: parsePhoneNumbers returns one entry per non-overlapping match, left
\* to right, a match being a run of at least 9 characters out of digits,
\* whitespace, hyphens and parentheses, optionally prefixed by '+', that
\* starts (after the '+') and ends with a digit; each entry's normalized is
\* normalizePhone of its original; a text without such a run yields no
\* entry; "call me at 8-999-123-45-67 please" yields one entry, normalized
\* "+79991234567".
C12_ExtractFindsRuns ==
    pPc = "parsed"
    => /\ EntriesPlaced(pIn, pOut, 1, 1)
       /\ \A i \in DOMAIN pOut : pOut[i].normalized = normalizePhone(pOut[i].original)
       /\ (~HasPhoneRun(pIn, 1, Len(pIn)) => pOut = <<>>)
       /\ (pIn = TextCallMe => Len(pOut) = 1 /\ pOut[1].normalized = PhonePlus7)

\* C12 witness: a text holding two numbers apart was parsed into two entries
C12_Witness ==
    /\ pPc = "parsed"
    /\ Len(pOut) = 2
    /\ pOut[1].normalized = PhonePlus7 /\ pOut[2].normalized = NormTen

\* C13: recency ordering.  updated_at is refreshed on every mutation, so
\* right after a successful updateContact(id, fields) the contact with that
\* id is the first row of getAllContacts and of every search that returns it.
C13_UpdatedComesFirst ==
    [][\A id \in RequestIds, updates \in UpdateArgs :
          (UpdateCall(id, updates) /\ ~resp'.err /\ resp'.changes > 0)
          => /\ \A l \in getAllContacts(contacts', DefaultLimit) : l[1].id = id
             /\ \A query \in Queries : \A l \in searchContacts(contacts', query) :
                   (\E i \in DOMAIN l : l[i].id = id) => l[1].id = id]_vars

\* the rows of listing l are stored rows, each once, most recently updated
\* first, and no stored row left out is more recent than a listed one
IsMostRecent(l, rows) ==
    /\ \A i \in DOMAIN l : l[i] \in rows
    /\ \A i, j \in DOMAIN l : i # j => l[i] # l[j]
    /\ \A i \in 1..(Len(l) - 1) : l[i].updated_at >= l[i + 1].updated_at
    /\ \A r \in rows : (\A i \in DOMAIN l : l[i] # r)
                       => \A i \in DOMAIN l : l[i].updated_at >= r.updated_at

\* C14: GET /api/contacts without a search term answers with the listing of
\* getAllContacts(limit): the limit most recently updated contacts (all of
\* them when there are fewer), most recent first, the limit being 50 when
\* the request gives none; and its count field is the number of rows in data.
C14_ListIsCappedAndCounted ==
    (resp.op = "list" /\ resp.search = Undefined)
    => LET limit == IF resp.limit = Undefined THEN DefaultLimit
                    ELSE ParseDigits(resp.limit, 0)
           n == Cardinality(contacts)
       IN  /\ Len(resp.data) = (IF limit < n THEN limit ELSE n)
           /\ IsMostRecent(resp.data, contacts)
           /\ "count" \in DOMAIN resp
           /\ resp.count = Len(resp.data)

\* C15: the message handler creates the contact of a phone for which no
\* contact existed: when its saveContact has returned without error, the
\* contact with the phone's normalized form has phone = the original text,
\* name and company null and context = the first 200 characters of the
\* message text.
C15_HandlerCreatesContact ==
    [][\A h \in Handlers :
          (MsgSave(h) /\ hs'[h].pc = "refetch")
          => LET phone == hs[h].phones[hs[h].i]
                 contact == findContactByPhone(contacts', phone.normalized)
             IN  /\ contact # NoRow
                 /\ contact.phone = phone.original
                 /\ contact.name = NULL /\ contact.company = NULL
                 /\ contact.context = Substring0(hs[h].text, ContextLen)]_vars

\* the rows of parsed_messages that carry chat h and text
LoggedFor(h, text) ==
    {k \in DOMAIN parsedMessages :
        parsedMessages[k].chat_id = h /\ parsedMessages[k].original_text = text}

\* C16: the message handler appends one parsed_messages row per extracted
\* phone, carrying the chat and the original text: a handler that has built
\* n reply blocks has n rows of its message in the table.
C16_OneLogRowPerPhone ==
    \A h \in Handlers :
        hs[h].pc # "idle" => Cardinality(LoggedFor(h, hs[h].text)) >= Len(hs[h].responses)

\* the texts of each chat that are blank or hold no run
QuietTexts ==
    [h \in Handlers |->
        {text \in Texts[h] : Trim(text) = <<>> \/ ~HasPhoneRun(text, 1, Len(text))}]

\* the name or company field of a reply block for the stored value v
ShownField(v) == IF v # NULL /\ v # <<>> THEN v ELSE NULL

\* C17: for a message with k >= 1 extracted phones whose handler meets no
\* failure, the one phone reply holds k blocks in extraction order, the i-th
\* showing the i-th phone's normalized form and the stored contact's name
\* and company when present; for a message with blank text or without a
\* phone the handler sends no reply and writes nothing to the store.
C17_OneBlockPerPhone ==
    [][\A h \in Handlers :
          /\ MsgReply(h)
             => /\ resp'.reply = "phones"
                /\ Len(resp'.blocks) = Len(hs[h].phones)
                /\ Len(hs[h].phones) >= 1
                /\ \A i \in DOMAIN resp'.blocks :
                      resp'.blocks[i].phone = hs[h].phones[i].normalized
                /\ hs'[h].pc = "idle"
          /\ ((MsgFind(h) \/ MsgRefetch(h)) /\ Len(hs'[h].responses) > Len(hs[h].responses))
             => LET phone == hs[h].phones[hs[h].i]
                    block == hs'[h].responses[Len(hs'[h].responses)]
                IN  /\ Len(hs'[h].responses) = hs[h].i
                    /\ block.phone = phone.normalized
                    /\ \E r \in contacts :
                          /\ r.normalized_phone = phone.normalized
                          /\ block.name = ShownField(r.name)
                          /\ block.company = ShownField(r.company)
          /\ \A text \in QuietTexts[h] :
                MsgArrive(h, text)
                => /\ resp'.reply = "none"
                   /\ contacts' = contacts /\ seq' = seq
                   /\ hs'[h].pc = "idle"]_vars

\* C17 witness: a message with two phones was answered with two blocks, the
\* second showing the name and the company stored by /add
C17_Witness ==
    /\ resp.op = "message" /\ resp.reply = "phones"
    /\ Len(resp.blocks) = 2
    /\ resp.blocks[1].phone = NormTen /\ resp.blocks[1].name = NULL
    /\ resp.blocks[2].phone = PhonePlus7 /\ resp.blocks[2].name = NameAl
    /\ resp.blocks[2].company = CompanyCo

\* C18: when a store operation fails while the handler processes a message,
\* the handler sends the generic apology and no phone reply, and ends, so
\* that the next message is processed.
C18_FailureIsApologised ==
    [][\A h \in Handlers :
          MsgFail(h) => /\ resp'.op = "message" /\ resp'.reply = "apology"
                        /\ hs'[h].pc = "idle"]_vars

\* C19: in the message handler the contact obtained for a phone after its
\* saveContact is never absent when the reply block is built, whatever other
\* handlers, /add commands and PUT updates do in between; so the second
\* copy's bare contact.name read does not throw.
C19_ContactNeverAbsent ==
    [][\A h \in Handlers :
          MsgRefetch(h)
          => /\ findContactByPhone(contacts, hs[h].phones[hs[h].i].normalized) # NoRow
             /\ hs'[h].pc # "idle"]_vars

\* C19 witness: a handler that lost the race is about to re-fetch: its save
\* has returned and the stored contact of its phone is another writer's row
C19_Witness ==
    \E h \in Handlers :
        /\ hs[h].pc = "refetch"
        /\ \E r \in contacts :
              /\ r.normalized_phone = hs[h].phones[hs[h].i].normalized
              /\ r.phone # hs[h].phones[hs[h].i].original

\* C20: when /add answers 'contact saved', the store holds a contact for the
\* normalized phone whose name and company are the values the reply echoes
\* (null when omitted), also when such a contact existed before.
C20_AddEchoIsStored ==
    (resp.op = "add" /\ resp.reply = "saved")
    => \E r \in contacts :
          /\ r.normalized_phone = resp.phone
          /\ r.name = resp.name
          /\ r.company = resp.company

=============================================================================
